---- MODULE Spec2Model ----
(***************************************************************************)
(* Model of the pattern-drafting core of src/app.py (Atelier CAD):         *)
(* calculate_grid, the side-seam part of create_geometries and of          *)
(* draw_pattern_final, and the re-run of the script on a changed input.    *)
(*                                                                         *)
(* Numbers.  The program computes in Python floats (centimetres).  Every   *)
(* quantity modelled here is a rational whose denominator divides Unit, so *)
(* a length of x cm is the integer x * Unit and every division below is    *)
(* exact (ExactArithmetic checks it).  Equality in the model is equality   *)
(* of the exact values; the float results differ from them by rounding     *)
(* only (far below the 1e-6 tolerance the properties are stated with).     *)
(*                                                                         *)
(* Strings.  The option values are Russian words in the source; they are   *)
(* transliterated: 'polnaya' (full bust), 'srednyaya' (medium bust),       *)
(* 'pokatye' (sloped shoulders), 'pryamye' (square shoulders),             *)
(* 'normalnye' (normal shoulders), 'sutulaya' (stooped posture),           *)
(* 'normalnaya' (normal posture).                                          *)
(***************************************************************************)
EXTENDS Integers, FiniteSets, Sequences, TLC

VARIABLES m, opts, grid, back_geom, fig

vars == <<m, opts, grid, back_geom, fig>>

\* ------------------------------------------------------------------ numbers

\* One centimetre, in model units (fixed point: 1/800 cm).
Unit == 800

Cm(x) == x * Unit

\* x.y cm for a one-digit decimal fraction, e.g. Tenths(55) = 5.5 cm.
Tenths(x) == (x * Unit) \div 10

Max(a, b) == IF a >= b THEN a ELSE b

\* ------------------------------------------------------------------- inputs

\* How many of the varied measurements may differ from Baseline at once.
MaxDeviations == 2

\* The measurements of the documented end-to-end scenario A, completed with
\* the form's defaults for the measurements that scenario leaves open and
\* with the zero sleeve measurements the script passes.
Baseline ==
  [OG |-> Cm(103), OT |-> Cm(86), OB |-> Cm(102),
   DTS |-> Cm(41), DTP |-> Cm(46), DI |-> Cm(110),
   VPK |-> Cm(42), ShP |-> Cm(13), Vg |-> Cm(27), Cg |-> Cm(20),
   Pruh |-> Cm(5), Ptal |-> Cm(3), Pbed |-> Cm(2),
   pr_len |-> 0, sleeve_len |-> 0, sleeve_w |-> 0]

OGValues == {Cm(x) : x \in {30, 75, 80, 90, 91, 103, 105, 106, 130}}
OTValues == {Cm(x) : x \in {50, 86, 110}}
OBValues == {Cm(x) : x \in {80, 102, 140}}
DTSValues == {Cm(x) : x \in {35, 41, 50}}
DIValues == {Cm(x) : x \in {50, 110, 150}}
PruhValues == {Cm(x) : x \in {0, 5, 10}}
PtalValues == {Cm(x) : x \in {0, 3}}
PbedValues == {Cm(x) : x \in {0, 2}}

VariedFields == {"OG", "OT", "OB", "DTS", "DI", "Pruh", "Ptal", "Pbed"}

FieldValues(f) ==
  CASE f = "OG" -> OGValues
    [] f = "OT" -> OTValues
    [] f = "OB" -> OBValues
    [] f = "DTS" -> DTSValues
    [] f = "DI" -> DIValues
    [] f = "Pruh" -> PruhValues
    [] f = "Ptal" -> PtalValues
    [] f = "Pbed" -> PbedValues

Deviations(mm) == Cardinality({f \in VariedFields : mm[f] # Baseline[f]})

\* The Measurements values tried.
Measurements ==
  {mm \in [OG : OGValues, OT : OTValues, OB : OBValues,
           DTS : DTSValues, DTP : {Baseline.DTP}, DI : DIValues,
           VPK : {Baseline.VPK}, ShP : {Baseline.ShP},
           Vg : {Baseline.Vg}, Cg : {Baseline.Cg},
           Pruh : PruhValues, Ptal : PtalValues, Pbed : PbedValues,
           pr_len : {0}, sleeve_len : {0}, sleeve_w : {0}] :
     Deviations(mm) <= MaxDeviations}

\* What the code compares each option against, plus one value the code names
\* nowhere ('small' for the bust, 'erect' for the posture) and one value
\* outside every enumeration.
BustValues == {"srednyaya", "polnaya", "malenkaya", "unrecognized"}
ShoulderValues == {"normalnye", "pokatye", "pryamye", "unrecognized"}
PostureValues == {"normalnaya", "sutulaya", "unrecognized"}

OptionValues(a) ==
  CASE a = "bust" -> BustValues
    [] a = "shoulder" -> ShoulderValues
    [] a = "posture" -> PostureValues

Options == [bust : BustValues, shoulder : ShoulderValues, posture : PostureValues]

\* The options the script passes.
DefaultOpts == [bust |-> "srednyaya", shoulder |-> "normalnye", posture |-> "normalnaya"]

\* The ranges of the sidebar's number inputs and sliders.
FormAccepts(mm) ==
  /\ Cm(80) <= mm.OG /\ mm.OG <= Cm(130)
  /\ Cm(50) <= mm.OT /\ mm.OT <= Cm(110)
  /\ Cm(80) <= mm.OB /\ mm.OB <= Cm(140)
  /\ Cm(35) <= mm.DTS /\ mm.DTS <= Cm(50)
  /\ Cm(35) <= mm.DTP /\ mm.DTP <= Cm(60)
  /\ Cm(50) <= mm.DI /\ mm.DI <= Cm(150)
  /\ Cm(35) <= mm.VPK /\ mm.VPK <= Cm(50)
  /\ Cm(10) <= mm.ShP /\ mm.ShP <= Cm(20)
  /\ Cm(20) <= mm.Vg /\ mm.Vg <= Cm(40)
  /\ Cm(15) <= mm.Cg /\ mm.Cg <= Cm(25)
  /\ 0 <= mm.Pruh /\ mm.Pruh <= Cm(10)
  /\ 0 <= mm.Ptal /\ mm.Ptal <= Cm(10)
  /\ 0 <= mm.Pbed /\ mm.Pbed <= Cm(10)

\* ----------------------------------------------------------- calculate_grid

Total_W(mm) == (mm.OG + mm.Pruh) \div 2

\* Mutant of W_back: the full-bust correction added instead of subtracted.
W_back_fullAdds(mm, o) ==
  (mm.OG \div 8) + Tenths(55) + (IF o.bust = "polnaya" THEN Tenths(5) ELSE 0)

W_back(mm, o) ==
  (mm.OG \div 8) + Tenths(55) - (IF o.bust = "polnaya" THEN Tenths(5) ELSE 0)

W_arm(mm) ==
  IF (mm.OG \div 8) - Tenths(15) < Tenths(95)
  THEN Tenths(95)
  ELSE (mm.OG \div 8) - Tenths(15)

\* Mutant of W_front: the front width taken from the armhole width before
\* its floor is applied.
W_front_unclamped(mm, o) ==
  Total_W(mm) - W_back(mm, o) - ((mm.OG \div 8) - Tenths(15))

W_front(mm, o) == Total_W(mm) - W_back(mm, o) - W_arm(mm)

\* Mutant of Depth_Arm: the two shoulder corrections exchanged.
Depth_Arm_exchanged(mm, o) ==
  (mm.OG \div 10) + Tenths(105) + Tenths(25)
  + (IF o.shoulder = "pokatye" THEN - Tenths(10)
     ELSE IF o.shoulder = "pryamye" THEN Tenths(15)
     ELSE 0)

Depth_Arm(mm, o) ==
  (mm.OG \div 10) + Tenths(105) + Tenths(25)
  + (IF o.shoulder = "pokatye" THEN Tenths(15)
     ELSE IF o.shoulder = "pryamye" THEN - Tenths(10)
     ELSE 0)

\* Mutant of levels: the hip line 18 below the waist line instead of 19.
levels_hip18(mm, o) ==
  [A |-> 0, G |-> Depth_Arm(mm, o), T |-> mm.DTS, B |-> mm.DTS + Cm(18), N |-> mm.DI]

levels(mm, o) ==
  [A |-> 0, G |-> Depth_Arm(mm, o), T |-> mm.DTS, B |-> mm.DTS + Cm(19), N |-> mm.DI]

W_waist_needed(mm) == (mm.OT \div 2) + (mm.Ptal \div 2)

\* Mutant of Total_Dart: the floor at zero left out.
Total_Dart_unfloored(mm) == Total_W(mm) - W_waist_needed(mm)

Total_Dart(mm) == Max(0, Total_W(mm) - W_waist_needed(mm))

darts(mm) ==
  [back |-> (Total_Dart(mm) * 25) \div 100,
   side |-> (Total_Dart(mm) * 45) \div 100,
   front |-> (Total_Dart(mm) * 30) \div 100]

\* Mutant of bust_dart: the thresholds compared with >= instead of >.
bust_dart_inclusive(mm, o) ==
  (IF mm.OG >= Cm(105) THEN Tenths(50)
   ELSE IF mm.OG >= Cm(90) THEN Tenths(35)
   ELSE Tenths(20))
  + (IF o.bust = "polnaya" THEN Tenths(15) ELSE 0)

bust_dart(mm, o) ==
  (IF mm.OG > Cm(105) THEN Tenths(50)
   ELSE IF mm.OG > Cm(90) THEN Tenths(35)
   ELSE Tenths(20))
  + (IF o.bust = "polnaya" THEN Tenths(15) ELSE 0)

\* The function has no raise and no early return: it returns this value for
\* every argument.
calculate_grid(mm, o) ==
  [W |-> [total |-> Total_W(mm), back |-> W_back(mm, o),
          arm |-> W_arm(mm), front |-> W_front(mm, o)],
   L |-> levels(mm, o),
   D |-> darts(mm),
   Misc |-> [bust_dart |-> bust_dart(mm, o)]]

\* -------------------------------------------------------- create_geometries

\* back_poly_coords from its fourth point on, as <<x, y>> pairs.  The first
\* three points (neckline and shoulder end) go through np.sin/np.cos and a
\* division by 13; of them the model keeps the two option-dependent
\* parameters, angle (degrees, before np.radians) and dart_val.
create_geometries(mm, g, o) ==
  LET W == g.W
      L == g.L
      D == g.D
  IN [angle |-> IF o.shoulder # "pokatye" THEN 15 ELSE 20,
      dart_val |-> IF o.posture # "sutulaya" THEN Tenths(15) ELSE Tenths(25),
      coords |->
        << <<W.back, L.G - Cm(5)>>,
           <<W.back + (W.arm \div 2), L.G>>,
           <<W.back + (W.arm \div 2) - (D.side \div 2), L.T>>,
           <<W.back + (W.arm \div 2) - (D.side \div 2) - Cm(1), L.B>>,
           <<W.back + (W.arm \div 2) - (D.side \div 2) - Cm(1), L.N>>,
           <<0, L.N>>,
           <<0, 0>> >>]

\* ------------------------------------------------------- draw_pattern_final

center_arm(g) == g.W.back + (g.W.arm \div 2)

side_val(g) == g.D.side \div 2

hip_excess(mm, g) == ((mm.OB \div 2) + (mm.Pbed \div 2)) - g.W.total

hip_sh(mm, g) == hip_excess(mm, g) \div 2

bx_hip(mm, g) == center_arm(g) - side_val(g) - hip_sh(mm, g)

\* The back half's polylines below the shoulder, each a sequence of <<x, y>>
\* pairs in plotting order, with the shoulder's angle (degrees) and length.
draw_pattern_final(mm, g, o) ==
  LET L == g.L
  IN [angle |-> 15 + (IF o.shoulder = "pokatye" THEN 5
                      ELSE IF o.shoulder = "pryamye" THEN -5 ELSE 0),
      sh_len |-> mm.ShP + (IF o.posture # "sutulaya" THEN Tenths(15) ELSE Tenths(25)),
      side |-> << <<center_arm(g), L.G>>,
                  <<center_arm(g) - Tenths(5), (L.G + L.T) \div 2>>,
                  <<center_arm(g) - side_val(g), L.T>> >>,
      hip |-> << <<center_arm(g) - side_val(g), L.T>>, <<bx_hip(mm, g), L.B>> >>,
      hem |-> << <<bx_hip(mm, g), L.B>>, <<bx_hip(mm, g), L.N>> >>,
      bottom |-> << <<0, L.N>>, <<bx_hip(mm, g), L.N>> >>,
      centre |-> << <<0, 0>>, <<0, L.N>> >>]

\* ------------------------------------------------------------ state machine

NoGrid == [returned |-> FALSE]
NoGeom == [returned |-> FALSE]
NoFig == [returned |-> FALSE]

Init ==
  /\ m \in Measurements
  /\ opts \in Options
  /\ grid = NoGrid
  /\ back_geom = NoGeom
  /\ fig = NoFig

\* grid = calculate_grid(m, opts)
CallCalculateGrid ==
  /\ grid' = calculate_grid(m, opts)
  /\ UNCHANGED <<m, opts, back_geom, fig>>

\* create_geometries(m, grid, opts), on the grid of the current inputs
CallCreateGeometries ==
  /\ grid # NoGrid
  /\ back_geom' = create_geometries(m, grid, opts)
  /\ UNCHANGED <<m, opts, grid, fig>>

\* fig = draw_pattern_final(m, grid, opts, seams)
CallDrawPatternFinal ==
  /\ grid # NoGrid
  /\ fig' = draw_pattern_final(m, grid, opts)
  /\ UNCHANGED <<m, opts, grid, back_geom>>

\* The script's body from the inputs on: it builds the grid and draws it,
\* and calls create_geometries nowhere.
Rerun(mm, o) ==
  /\ m' = mm
  /\ opts' = o
  /\ grid' = calculate_grid(mm, o)
  /\ fig' = draw_pattern_final(mm, calculate_grid(mm, o), o)
  /\ back_geom' = NoGeom

\* One measurement is changed in the form, which the script has drawn, and
\* the script runs again.
SetMeasurement ==
  \E f \in VariedFields : \E v \in FieldValues(f) :
    /\ fig # NoFig
    /\ v # m[f]
    /\ Deviations([m EXCEPT ![f] = v]) <= MaxDeviations
    /\ Rerun([m EXCEPT ![f] = v], opts)

\* The same measurements are drafted again with one option changed.
SetOption ==
  \E a \in DOMAIN opts : \E v \in OptionValues(a) :
    /\ fig # NoFig
    /\ v # opts[a]
    /\ Rerun(m, [opts EXCEPT ![a] = v])

Next ==
  \/ CallCalculateGrid
  \/ CallCreateGeometries
  \/ CallDrawPatternFinal
  \/ SetMeasurement
  \/ SetOption

Spec == Init /\ [][Next]_vars

\* Every division of the model is exact for the values tried.
ExactArithmetic ==
  /\ m.OG % 80 = 0
  /\ (m.OG + m.Pruh) % 2 = 0
  /\ m.OT % 2 = 0 /\ m.Ptal % 2 = 0
  /\ (m.OB % 2 = 0) /\ (m.Pbed % 2 = 0)
  /\ (Total_Dart(m) * 5) % 200 = 0
  /\ W_arm(m) % 2 = 0
  /\ (Depth_Arm(m, opts) + m.DTS) % 2 = 0
  /\ hip_excess(m, calculate_grid(m, opts)) % 2 = 0

\* ------------------------------------------------------------------ helpers

StrictlyIncreasing(L) == L.A < L.G /\ L.G < L.T /\ L.T < L.B /\ L.B < L.N

\* The closed enumerations of the three option axes the code reads.
RecognizedBust == {"srednyaya", "malenkaya", "polnaya"}
RecognizedShoulder == {"normalnye", "pokatye", "pryamye"}
RecognizedPosture == {"normalnaya", "sutulaya", "pryamaya"}

Unrecognized(o) ==
  \/ o.bust \notin RecognizedBust
  \/ o.shoulder \notin RecognizedShoulder
  \/ o.posture \notin RecognizedPosture

PositiveLengths(mm) ==
  /\ mm.OG > 0 /\ mm.OT > 0 /\ mm.OB > 0
  /\ mm.DTS > 0 /\ mm.DTP > 0 /\ mm.DI > 0
  /\ mm.VPK > 0 /\ mm.ShP > 0 /\ mm.Vg > 0 /\ mm.Cg > 0

NonNegativeEase(mm) == mm.Pruh >= 0 /\ mm.Ptal >= 0 /\ mm.Pbed >= 0

\* The required hip half-width exceeds the grid's total half-width.
HipExceedsGrid == (m.OB \div 2) + (m.Pbed \div 2) > grid.W.total

\* --------------------------------------------------------------------- C1

\* C1: whenever calculate_grid has returned a grid for measurements the input
\* form accepts (and options of the enumerations), its levels are strictly
\* increasing, neck < chest < waist < hip < hem; a garment length not greater
\* than the hip level yields no grid.
C1_LevelsStrictlyIncreasing ==
  (grid # NoGrid /\ FormAccepts(m) /\ ~Unrecognized(opts)) =>
    /\ StrictlyIncreasing(grid.L)
    /\ m.DI > m.DTS + Cm(19)

\* --------------------------------------------------------------------- C2

\* C2: in every returned grid back + armhole + front width equals the total
\* half-width, the armhole width is max(bust/8 - 1.5, 9.5) and so never below
\* 9.5, and bust = 75 gives the armhole width 9.5 (not 7.875) with the front
\* width taken from the clamped value.
C2_WidthsSumToTotal ==
  grid # NoGrid =>
    /\ grid.W.back + grid.W.arm + grid.W.front = grid.W.total
    /\ grid.W.arm = Max((m.OG \div 8) - Tenths(15), Tenths(95))
    /\ grid.W.arm >= Tenths(95)
    /\ m.OG = Cm(75) =>
         /\ grid.W.arm = Tenths(95)
         /\ grid.W.front = grid.W.total - grid.W.back - Tenths(95)

\* A grid returned for bust = 75, where bust/8 - 1.5 = 7.875 is below the floor.
C2_ClampedArmholeReached ==
  /\ grid # NoGrid
  /\ m.OG = Cm(75)
  /\ (m.OG \div 8) - Tenths(15) = (7875 * Unit) \div 1000
  /\ grid.W.arm = Tenths(95)

\* --------------------------------------------------------------------- C3

\* C3: the back, side and front dart intakes of every returned grid are
\* non-negative and sum to max(0, total half-width - (waist/2 + waist
\* ease/2)); when that volume is clamped to 0 all three intakes are 0.
C3_DartsSumToTotalDart ==
  grid # NoGrid =>
    LET needed == (m.OT \div 2) + (m.Ptal \div 2)
        volume == Max(0, grid.W.total - needed)
    IN /\ grid.D.back >= 0 /\ grid.D.side >= 0 /\ grid.D.front >= 0
       /\ grid.D.back + grid.D.side + grid.D.front = volume
       /\ grid.W.total - needed <= 0 =>
            grid.D.back = 0 /\ grid.D.side = 0 /\ grid.D.front = 0

\* A grid returned where the waist needs more than the grid's half-width.
C3_ClampedDartReached ==
  /\ grid # NoGrid
  /\ grid.W.total - ((m.OT \div 2) + (m.Ptal \div 2)) < 0
  /\ grid.D.side = 0

\* --------------------------------------------------------------------- C4

ScenarioA ==
  /\ m.OG = Cm(103) /\ m.OT = Cm(86) /\ m.DTS = Cm(41) /\ m.DI = Cm(110)
  /\ m.Pruh = Cm(5) /\ m.Ptal = Cm(3) /\ m.Pbed = Cm(2)

\* The parts of the reference grid other than the chest level.
ReferenceGridBesidesChest ==
  /\ grid.W.total = (m.OG + m.Pruh) \div 2
  /\ grid.W.back = (m.OG \div 8) + Tenths(55)
  /\ grid.W.arm = Max((m.OG \div 8) - Tenths(15), Tenths(95))
  /\ grid.W.front = grid.W.total - grid.W.back - grid.W.arm
  /\ grid.L.T = m.DTS
  /\ grid.L.B = m.DTS + Cm(19)
  /\ grid.L.N = m.DI
  /\ ScenarioA =>
       /\ grid.W.total = Cm(54)
       /\ grid.W.back = (18375 * Unit) \div 1000
       /\ grid.W.arm = (11375 * Unit) \div 1000
       /\ grid.W.front = (2425 * Unit) \div 100
       /\ grid.L.T = Cm(41) /\ grid.L.B = Cm(60) /\ grid.L.N = Cm(110)
       /\ grid.D.back + grid.D.side + grid.D.front = Tenths(95)

\* C4 as stated: with neutral options the grid is the reference grid with
\* chest level = bust/10 + 10.5 + 2.0, which is 22.8 in scenario A.
C4_ReferenceGrid ==
  (grid # NoGrid /\ opts = DefaultOpts) =>
    /\ ReferenceGridBesidesChest
    /\ grid.L.G = (m.OG \div 10) + Tenths(105) + Tenths(20)
    /\ ScenarioA => grid.L.G = Tenths(228)

\* C4 amended: with neutral options the grid is the reference grid with
\* chest level = bust/10 + 10.5 + 2.5, which is 23.3 in scenario A; the other
\* values are as stated.
C4_ReferenceGridAmended ==
  (grid # NoGrid /\ opts = DefaultOpts) =>
    /\ ReferenceGridBesidesChest
    /\ grid.L.G = (m.OG \div 10) + Tenths(105) + Tenths(25)
    /\ ScenarioA => grid.L.G = Tenths(233)

\* The grid of scenario A with neutral options has been returned.
C4_ScenarioAReached ==
  /\ grid # NoGrid
  /\ opts = DefaultOpts
  /\ ScenarioA
  /\ grid.L.G = Tenths(233)

\* --------------------------------------------------------------------- C5

\* A step that drafts the same measurements again with the shoulder option
\* switched from normal to v and nothing else changed.
ShoulderSwitchedTo(v) ==
  /\ grid # NoGrid /\ grid' # NoGrid
  /\ m' = m
  /\ opts.shoulder = "normalnye"
  /\ opts' = [opts EXCEPT !.shoulder = v]

OnlyChestLevelDiffers ==
  /\ grid'.W = grid.W
  /\ grid'.L.A = grid.L.A /\ grid'.L.T = grid.L.T
  /\ grid'.L.B = grid.L.B /\ grid'.L.N = grid.L.N

BustSwitchedTo(v) ==
  /\ grid # NoGrid /\ grid' # NoGrid
  /\ m' = m
  /\ opts.bust = "srednyaya"
  /\ opts' = [opts EXCEPT !.bust = v]

\* A step that computes the grid again for the same measurements and options.
SameInputsAgain ==
  /\ grid # NoGrid /\ grid' # NoGrid
  /\ m' = m
  /\ opts' = opts

BustDartStep(og) ==
  IF og <= Cm(90) THEN Tenths(20)
  ELSE IF og <= Cm(105) THEN Tenths(35)
  ELSE Tenths(50)

\* C7: the bust dart of every returned grid is 2.0 for bust <= 90, 3.5 for
\* 90 < bust <= 105 and 5.0 above, plus 1.5 exactly when the bust option is
\* full; and at fixed options it never decreases when the bust grows.
C7_BustDartStepFunction ==
  /\ [](grid # NoGrid =>
          grid.Misc.bust_dart =
            BustDartStep(m.OG) + (IF opts.bust = "polnaya" THEN Tenths(15) ELSE 0))
  /\ [][(grid # NoGrid /\ grid' # NoGrid /\ opts' = opts /\ m'.OG >= m.OG) =>
          grid'.Misc.bust_dart >= grid.Misc.bust_dart]_vars

\* A grid returned for the bust just above the second threshold with the full
\* option: 5.0 + 1.5.
C7_TopStepReached ==
  /\ grid # NoGrid
  /\ m.OG = Cm(106)
  /\ opts.bust = "polnaya"
  /\ grid.Misc.bust_dart = Tenths(65)

\* --------------------------------------------------------------------- C8

\* C8: with a value outside its enumeration on any option axis, no grid,
\* geometry or drawing is returned.
C8_UnknownOptionFailsFast ==
  Unrecognized(opts) => grid = NoGrid /\ back_geom = NoGeom /\ fig = NoFig

\* --------------------------------------------------------------------- C9

\* C9: for strictly positive lengths and non-negative ease the front width of
\* the returned grid is never negative.
C9_FrontWidthNonNegative ==
  (grid # NoGrid /\ PositiveLengths(m) /\ NonNegativeEase(m)) => grid.W.front >= 0

\* -------------------------------------------------------------------- C10

\* C10: on the drawn back side seam the waist point lies inward of the
\* armhole-bottom point by half the side dart intake, the hip point is not
\* inward of the waist point whenever the required hip half-width exceeds the
\* grid's total half-width, and the hem point has the hip point's x.  Stated
\* for the measurements the input form accepts and options of the
\* enumerations.
C10_SideSeam ==
  (fig # NoFig /\ FormAccepts(m) /\ ~Unrecognized(opts)) =>
    /\ fig.side[3][1] = fig.side[1][1] - (grid.D.side \div 2)
    /\ HipExceedsGrid => fig.hip[2][1] >= fig.hip[1][1]
    /\ fig.hem[2][1] = fig.hip[2][1]

====
